---- MODULE Spec2Model ----
(***************************************************************************)
(* Model of src/spotifyETL/spotifyPipeline.py: the Spotify_ETL_Pipeline    *)
(* class (get_data -> extract -> transform -> load) run against a provider *)
(* holding the user's recently played history and a destination database   *)
(* holding the table 'sam_recently_played'.                                *)
(***************************************************************************)
EXTENDS Integers, Sequences, FiniteSets, TLC

VARIABLES
    history,   \* the provider's answer to current_user_recently_played (data['items'])
    table,     \* the destination table public.sam_recently_played
    table0,    \* the destination table as it was when the current run started
    prev,      \* how the previous run of the script ended ("none" before the first)
    runs,      \* number of runs of the script started so far
    pc,        \* position of the current run inside load()/transform()/extract()
    data,      \* extract(): the local `data` returned by get_data()
    input,     \* transform(): the dataframe `df` as extract() returned it
    df,        \* transform()/load(): the dataframe `df` / `songs`
    err,       \* the exception that ended the run ("none" while none was raised)
    written,   \* to_sql: number of rows inserted so far
    pass       \* how many times transform's body has been applied to df in this run

vars == <<history, table, table0, prev, runs, pc, data, input, df, err, written, pass>>

----------------------------------------------------------------------------
(* Bounds of the model *)

\* Longest history the provider returns in the model (the code asks for limit=50).
MaxItems == 3
\* Number of times the script is run against the same destination.
MaxRuns == 2

(* Program constants *)

\* to_sql(..., chunksize=500)
ChunkSize == 500

\* Python's None in a text cell / JSON field.
None == "None"
\* JSON null in the integer field 'popularity' (NaN once inside the dataframe).
NaN == -1

Min(a, b) == IF a <= b THEN a ELSE b

----------------------------------------------------------------------------
(* The provider's payload: one element of data['items'], flattened to the  *)
(* seven leaves extract() reads.                                           *)

\* 'played_at' of the event played k ticks after the oldest one, as the ISO string.
Stamp(k) == "2022-05-0" \o ToString(k) \o "T10:00:00Z"

Item(name, artists, popularity, k, missing) ==
    [ name        |-> IF missing = "name" THEN None ELSE name,
      artists     |-> artists,
      album       |-> IF missing = "album" THEN None ELSE "Album",
      images      |-> IF missing = "noimages" THEN << >>
                      ELSE IF missing = "image" THEN <<None, "cover64">>
                      ELSE <<"cover640", "cover64">>,
      played_at   |-> IF missing = "played_at" THEN None ELSE Stamp(k),
      popularity  |-> IF missing = "popularity" THEN NaN ELSE popularity,
      preview_url |-> IF missing = "preview" THEN None ELSE "preview" ]

\* Play times of a history of n events in the provider's most-recent-first
\* order: the first is the newest, each next one is the same instant or the
\* one before.
TimeLines(n) ==
    { tl \in [1..n -> 1..MaxItems] :
        /\ n > 0 => tl[1] = MaxItems
        /\ \A i \in 2..n : tl[i] \in {tl[i-1], tl[i-1] - 1} }

\* A variant is everything of an item but its play time.
Variant(name, artists, popularity, missing) ==
    [name |-> name, artists |-> artists, popularity |-> popularity, missing |-> missing]

ItemOf(v, k) == Item(v.name, v.artists, v.popularity, k, v.missing)

\* All histories of at most MaxItems events whose items are drawn from V.
Histories(V) ==
    UNION { { [i \in 1..n |-> ItemOf(vs[i], tl[i])] :
                vs \in [1..n -> V], tl \in TimeLines(n) } : n \in 0..MaxItems }

----------------------------------------------------------------------------
(* The dataframe: its index labels, its rows in order, and the dtype of    *)
(* the Popularity column (int64 scores, or object once they are labels).   *)

DataFrame(index, rows, dtype) == [index |-> index, rows |-> rows, dtype |-> dtype]

\* pd.DataFrame(data): one row per item, RangeIndex 0..n-1.
RangeIndex(n) == [i \in 1..n |-> i - 1]

NoFrame == DataFrame(<< >>, << >>, "int64")

\* ', '.join(names): raises TypeError when a name is not a string.
RECURSIVE Join(_)
Join(names) ==
    IF Len(names) = 0 THEN ""
    ELSE IF Len(names) = 1 THEN names[1]
    ELSE names[1] \o ", " \o Join(Tail(names))

JoinRaises(names) == \E i \in 1..Len(names) : names[i] = None

\* x['track']['album']['images'][0] raises IndexError on an empty list.
ExtractRaises(items) ==
    \E i \in 1..Len(items) : Len(items[i].images) = 0 \/ JoinRaises(items[i].artists)

\* The seven list comprehensions and the dictionary of extract().
ExtractRow(x) ==
    [ Track      |-> x.name,
      Artist     |-> Join(x.artists),
      Album      |-> x.album,
      AlbumCover |-> x.images[1],
      Preview    |-> x.preview_url,
      PlayedAt   |-> x.played_at,
      Popularity |-> x.popularity ]

ExtractFrame(items) ==
    DataFrame(RangeIndex(Len(items)), [i \in 1..Len(items) |-> ExtractRow(items[i])], "int64")

----------------------------------------------------------------------------
(* transform() *)

\* popularity_helper as a comparison cascade with an off-by-one boundary.
PopularityHelperInclusive(popularity) ==
    IF popularity <= 25 THEN "Undiscovered"
    ELSE IF popularity <= 50 THEN "Low"
    ELSE IF popularity <= 75 THEN "High"
    ELSE "Overplayed"

popularity_helper(popularity) ==
    IF popularity < 25 THEN "Undiscovered"
    ELSE IF popularity < 50 THEN "Low"
    ELSE IF popularity < 75 THEN "High"
    ELSE "Overplayed"

\* df.empty
IsEmpty(f) == Len(f.rows) = 0

\* a null test that does not look at the Preview column
RowHasNullButPreview(r, dtype) ==
    \/ r.Track = None \/ r.Artist = None \/ r.Album = None
    \/ r.AlbumCover = None \/ r.PlayedAt = None
    \/ IF dtype = "int64" THEN r.Popularity = NaN ELSE r.Popularity = None

\* one cell is null: None in a text column, NaN in the int64 Popularity column
RowHasNull(r, dtype) ==
    \/ r.Track = None \/ r.Artist = None \/ r.Album = None
    \/ r.AlbumCover = None \/ r.Preview = None \/ r.PlayedAt = None
    \/ IF dtype = "int64" THEN r.Popularity = NaN ELSE r.Popularity = None

\* df.isnull().values.any()
AnyNull(f) == \E i \in 1..Len(f.rows) : RowHasNull(f.rows[i], f.dtype)

\* is_unique asked of the Track column
TrackUnique(f) ==
    \A i, j \in 1..Len(f.rows) : i # j => f.rows[i].Track # f.rows[j].Track

\* df['Played At'].is_unique
PlayedAtUnique(f) ==
    \A i, j \in 1..Len(f.rows) : i # j => f.rows[i].PlayedAt # f.rows[j].PlayedAt

\* the key drop_duplicates compares: subset=['Track', 'Artist']
DupKeyTrackOnly(r) == <<r.Track>>

DupKey(r) == <<r.Track, r.Artist>>

\* positions drop_duplicates keeps (keep='first'): no earlier row has the key
Kept(f) ==
    { i \in 1..Len(f.rows) : \A j \in 1..(i-1) : DupKey(f.rows[j]) # DupKey(f.rows[i]) }

\* the i-th smallest element of a finite set of integers
RECURSIVE Nth(_, _)
Nth(S, i) ==
    LET m == CHOOSE x \in S : \A y \in S : x <= y
    IN  IF i = 1 THEN m ELSE Nth(S \ {m}, i - 1)

\* df.drop_duplicates(subset=['Track','Artist'], inplace=True): the kept
\* rows in their order, each still carrying its old index label.
DropDuplicates(f) ==
    LET K == Kept(f)
        n == Cardinality(K)
    IN  DataFrame([i \in 1..n |-> f.index[Nth(K, i)]],
                  [i \in 1..n |-> f.rows[Nth(K, i)]],
                  f.dtype)

\* df.reset_index(inplace=True, drop=True)
ResetIndex(f) == DataFrame(RangeIndex(Len(f.rows)), f.rows, f.dtype)

\* df['Popularity'].apply(self.popularity_helper) raises TypeError when the
\* column holds strings: '<' between str and int.
ApplyRaises(f) == f.dtype # "int64" /\ Len(f.rows) > 0

\* df['Popularity'].apply(...) with its result not assigned back
ApplyPopularityDiscarded(f) == f

\* df['Popularity'] = df['Popularity'].apply(self.popularity_helper)
ApplyPopularity(f) ==
    DataFrame(f.index,
              [i \in 1..Len(f.rows) |->
                  [f.rows[i] EXCEPT !.Popularity = popularity_helper(f.rows[i].Popularity)]],
              "object")

\* the gating checks of a transform that looks at timestamps before nulls
FirstFailureUniqueFirst(f) ==
    IF IsEmpty(f) THEN "EmptyHistory"
    ELSE IF ~PlayedAtUnique(f) THEN "DuplicateTimestamp"
    ELSE IF AnyNull(f) THEN "IncompleteRecord"
    ELSE "none"

\* the gating checks of a transform without the df.empty test
FirstFailureNoEmptyCheck(f) ==
    IF AnyNull(f) THEN "IncompleteRecord"
    ELSE IF ~PlayedAtUnique(f) THEN "DuplicateTimestamp"
    ELSE "none"

\* the three `if ...: raise Exception(...)` of transform, in program order
FirstFailure(f) ==
    IF IsEmpty(f) THEN "EmptyHistory"
    ELSE IF AnyNull(f) THEN "IncompleteRecord"
    ELSE IF ~PlayedAtUnique(f) THEN "DuplicateTimestamp"
    ELSE "none"

\* the body of transform() applied to the frame extract() returned:
\* the exception raised ("none" when it returns) and df as it is left.
TransformBody(f) ==
    LET failure == FirstFailure(f)
        deduped == ResetIndex(DropDuplicates(f))
    IN  IF failure # "none" THEN [err |-> failure, df |-> f]
        ELSE IF ApplyRaises(deduped) THEN [err |-> "TypeError", df |-> deduped]
        ELSE [err |-> "none", df |-> ApplyPopularity(deduped)]

----------------------------------------------------------------------------
(* The destination table public.sam_recently_played *)

NoTable == [exists |-> FALSE, rows |-> << >>]

EmptyTable == [exists |-> TRUE, rows |-> << >>]

\* a table some earlier run of the script loaded from an older listening window
OldTable ==
    [exists |-> TRUE,
     rows   |-> << [Track |-> "Song Z", Artist |-> "W", Album |-> "Album",
                    AlbumCover |-> "cover640", Preview |-> "preview",
                    PlayedAt |-> Stamp(0), Popularity |-> "High"],
                   [Track |-> "Song A", Artist |-> "X", Album |-> "Album",
                    AlbumCover |-> "cover640", Preview |-> "preview",
                    PlayedAt |-> Stamp(0), Popularity |-> "Low"] >>]

\* rows of songs that to_sql sends in the chunk following `done` rows
Chunk(f, done) == SubSeq(f.rows, done + 1, Min(done + ChunkSize, Len(f.rows)))

----------------------------------------------------------------------------
(* Initial states: the script has not run yet. *)

InitWith(H, T) ==
    /\ history \in H
    /\ table \in T
    /\ table0 = table
    /\ prev = "none"
    /\ runs = 1
    /\ pc = "start"
    /\ data = << >>
    /\ input = NoFrame
    /\ df = NoFrame
    /\ err = "none"
    /\ written = 0
    /\ pass = 0

Raise(e) ==
    /\ pc' = "failed"
    /\ err' = e

(* extract(): data = self.get_data() *)
get_data ==
    /\ pc = "start"
    /\ data' = history
    /\ pc' = "fetched"
    /\ UNCHANGED <<history, table, table0, prev, runs, input, df, err, written, pass>>

\* the API call fails (transport, authorization): the exception propagates
get_data_fails ==
    /\ pc = "start"
    /\ Raise("TransportFailure")
    /\ UNCHANGED <<history, table, table0, prev, runs, data, input, df, written, pass>>

(* extract(): the projections and pd.DataFrame(data) *)
extract ==
    /\ pc = "fetched"
    /\ IF ExtractRaises(data)
       THEN /\ Raise("ExtractError")
            /\ UNCHANGED <<input, df>>
       ELSE /\ input' = ExtractFrame(data)
            /\ df' = ExtractFrame(data)
            /\ pc' = "extracted"
            /\ err' = err
    /\ UNCHANGED <<history, table, table0, prev, runs, data, written, pass>>

(* transform(): everything after df = self.extract() *)
transform ==
    /\ pc = "extracted"
    /\ LET r == TransformBody(df)
       IN  /\ df' = r.df
           /\ err' = r.err
           /\ pc' = IF r.err = "none" THEN "transformed" ELSE "failed"
    /\ pass' = 1
    /\ UNCHANGED <<history, table, table0, prev, runs, data, input, written>>

\* load() without the songs.empty test
LoadGuardAbsent(f) == FALSE

\* load(): if songs.empty: raise
LoadGuard(f) == IsEmpty(f)

(* load(): the emptiness test, then entering songs.to_sql(...) *)
load ==
    /\ pc = "transformed"
    /\ IF LoadGuard(df)
       THEN Raise("EmptyResult")
       ELSE /\ pc' = "to_sql"
            /\ err' = err
    /\ written' = 0
    /\ UNCHANGED <<history, table, table0, prev, runs, data, input, df, pass>>

\* to_sql(if_exists='append') keeps what the table holds
AfterDropAppend(t) == t

\* to_sql(if_exists='replace'): the existing table is dropped
AfterDrop(t) == NoTable

(* to_sql finds the table present and applies if_exists: with the table    *)
(* gone it goes on to create it, a table still present is inserted into.   *)
to_sql_drop ==
    /\ pc = "to_sql"
    /\ table.exists
    /\ table' = AfterDrop(table)
    /\ pc' = IF table'.exists THEN "insert" ELSE "to_sql"
    /\ UNCHANGED <<history, table0, prev, runs, data, input, df, err, written, pass>>

(* to_sql: create the table with the seven typed columns *)
to_sql_create ==
    /\ pc = "to_sql"
    /\ ~table.exists
    /\ table' = EmptyTable
    /\ pc' = "insert"
    /\ UNCHANGED <<history, table0, prev, runs, data, input, df, err, written, pass>>

(* to_sql: insert the next chunk of at most chunksize rows *)
to_sql_insert ==
    /\ pc = "insert"
    /\ written < Len(df.rows)
    /\ table' = [table EXCEPT !.rows = @ \o Chunk(df, written)]
    /\ written' = written + Len(Chunk(df, written))
    /\ UNCHANGED <<history, table0, prev, runs, pc, data, input, df, err, pass>>

(* to_sql returns; load prints its last message *)
load_done ==
    /\ pc = "insert"
    /\ written = Len(df.rows)
    /\ pc' = "done"
    /\ UNCHANGED <<history, table, table0, prev, runs, data, input, df, err, written, pass>>

\* to_sql raises (connection lost, a value the column type rejects, ...).
\* Whether the statements already issued are undone depends on the pandas
\* version and the database: either outcome can be what the store keeps.
to_sql_fails ==
    /\ pc \in {"to_sql", "insert"}
    /\ Raise("DestinationWriteFailure")
    /\ \E rolledBack \in BOOLEAN : table' = IF rolledBack THEN table0 ELSE table
    /\ UNCHANGED <<history, table0, prev, runs, data, input, df, written, pass>>

(* the script is run again (test = Spotify_ETL_Pipeline(); test.load()) *)
run_again ==
    /\ pc \in {"done", "failed"}
    /\ runs < MaxRuns
    /\ runs' = runs + 1
    /\ prev' = pc
    /\ table0' = table
    /\ pc' = "start"
    /\ data' = << >>
    /\ input' = NoFrame
    /\ df' = NoFrame
    /\ err' = "none"
    /\ written' = 0
    /\ pass' = 0
    /\ UNCHANGED <<history, table>>

Next ==
    \/ get_data
    \/ get_data_fails
    \/ extract
    \/ transform
    \/ load
    \/ to_sql_drop
    \/ to_sql_create
    \/ to_sql_insert
    \/ load_done
    \/ to_sql_fails
    \/ run_again

\* Items of the pipeline specification: two tracks, two scores, and items
\* without a preview or without album images.
MainVariants ==
    { Variant(n, <<"X">>, p, "none") : n \in {"Song A", "Song B"}, p \in {24, 75} }
    \cup { Variant("Song A", <<"X">>, 24, "preview"),
           Variant("Song A", <<"X">>, 24, "noimages") }

Init == InitWith(Histories(MainVariants), {NoTable, OldTable})

Spec == Init /\ [][Next]_vars

----------------------------------------------------------------------------
(* Specifications over other sets of histories, same program. *)

\* Items with each of the nullable leaves missing in turn.
ValidationVariants ==
    { Variant("Song A", <<"X">>, 50, m) :
        m \in {"none", "name", "album", "image", "preview", "played_at", "popularity"} }
    \cup { Variant("Song A", <<None>>, 50, "none") }

InitValidation == InitWith(Histories(ValidationVariants), {OldTable})

SpecValidation == InitValidation /\ [][Next]_vars

\* Items over two tracks and three artist lists, two of which join to the
\* same Artist text.
DedupVariants ==
    { Variant(n, a, 50, "none") :
        n \in {"Song A", "Song B"}, a \in {<<"X">>, <<"X", "Y">>, <<"X, Y">>} }

InitDedup == InitWith(Histories(DedupVariants), {NoTable})

SpecDedup == InitDedup /\ [][Next]_vars

\* Histories whose newest item carries any score of 0..100, followed by
\* complete items with distinct play times.
PopularityTailVariants ==
    { Variant(n, <<"X">>, p, "none") : n \in {"Song A", "Song B"}, p \in {49, 50} }

PopularityHistories ==
    UNION { { [i \in 1..n |->
                 IF i = 1 THEN Item("Song A", <<"X">>, p, MaxItems, "none")
                 ELSE ItemOf(vs[i], MaxItems + 1 - i)] :
              p \in 0..100, vs \in [1..n -> PopularityTailVariants] } : n \in 1..MaxItems }

InitPopularity == InitWith(PopularityHistories, {NoTable})

SpecPopularity == InitPopularity /\ [][Next]_vars

(* transform's body applied once more, to the frame it has just returned   *)
(* (extract() handing back the transformed set).                           *)
transform_again ==
    /\ pc = "transformed"
    /\ pass = 1
    /\ input' = df
    /\ LET r == TransformBody(df)
       IN  /\ df' = r.df
           /\ err' = r.err
           /\ pc' = IF r.err = "none" THEN "transformed" ELSE "failed"
    /\ pass' = 2
    /\ UNCHANGED <<history, table, table0, prev, runs, data, written>>

NextAgain == Next \/ transform_again

SpecAgain == InitDedup /\ [][NextAgain]_vars

\* frames a stand-in for transform() hands to load(): no rows, or one row
StandInFrames ==
    { DataFrame(<< >>, << >>, "object"),
      DataFrame(<<0>>, <<OldTable.rows[1]>>, "object") }

(* load() with songs = self.transform() returning a given frame *)
transform_returns ==
    /\ pc = "start"
    /\ \E f \in StandInFrames : df' = f /\ input' = f
    /\ pc' = "transformed"
    /\ pass' = 1
    /\ UNCHANGED <<history, table, table0, prev, runs, data, err, written>>

NextLoad == Next \/ transform_returns

SpecLoad == Init /\ [][NextLoad]_vars

----------------------------------------------------------------------------
(* Vocabulary of the properties, stated on the frame transform received    *)
(* (input) and the frame it left (df).                                     *)

TransformFailures == {"EmptyHistory", "IncompleteRecord", "DuplicateTimestamp"}

\* transform has run on the extracted frame in this run
Transformed == pass = 1

\* ... and returned normally
TransformReturned == pass = 1 /\ err \notin TransformFailures /\ err # "TypeError"

\* the failure transform raised, "none" when it returned
TransformError == IF err \in TransformFailures THEN err ELSE "none"

Terminal == pc \in {"done", "failed"}

SetIsEmpty == Len(input.rows) = 0

SomeFieldNull ==
    \E i \in 1..Len(input.rows) :
        LET r == input.rows[i]
        IN  \/ None \in {r.Track, r.Artist, r.Album, r.AlbumCover, r.Preview, r.PlayedAt}
            \/ r.Popularity = NaN

SharedPlayedAt ==
    \E i, j \in 1..Len(input.rows) :
        i < j /\ input.rows[i].PlayedAt = input.rows[j].PlayedAt

\* the four-bucket rule of the data model
Bucket(p) ==
    IF p \in 0..24 THEN "Undiscovered"
    ELSE IF p \in 25..49 THEN "Low"
    ELSE IF p \in 50..74 THEN "High"
    ELSE IF p \in 75..100 THEN "Overplayed"
    ELSE "undefined"

\* out is the input record r, Popularity aside
SameRecord(out, r) ==
    /\ out.Track = r.Track /\ out.Artist = r.Artist /\ out.Album = r.Album
    /\ out.AlbumCover = r.AlbumCover /\ out.Preview = r.Preview
    /\ out.PlayedAt = r.PlayedAt

\* positions of the input whose (Track, Artist) does not occur earlier
FirstOccurrences ==
    { i \in 1..Len(input.rows) :
        \A j \in 1..(i-1) :
            \/ input.rows[j].Track # input.rows[i].Track
            \/ input.rows[j].Artist # input.rows[i].Artist }

\* the order-preserving maps from output positions onto the first occurrences
Selections ==
    { f \in [1..Len(df.rows) -> 1..Len(input.rows)] :
        /\ \A a, b \in 1..Len(df.rows) : a < b => f[a] < f[b]
        /\ { f[a] : a \in 1..Len(df.rows) } = FirstOccurrences }

----------------------------------------------------------------------------
(* C1 (as claimed): every run that has ended either passed all validations *)
(* and left the destination table holding the complete new record set, or  *)
(* left the destination table exactly as it was before the run started.    *)
C1_NoPartialEffect ==
    Terminal =>
        \/ /\ TransformReturned
           /\ table.exists
           /\ table.rows = df.rows
        \/ table = table0

C3_ChecksInOrder ==
    Transformed =>
        /\ SetIsEmpty => TransformError = "EmptyHistory"
        /\ (~SetIsEmpty /\ SomeFieldNull) => TransformError = "IncompleteRecord"
        /\ (~SetIsEmpty /\ ~SomeFieldNull /\ SharedPlayedAt)
               => TransformError = "DuplicateTimestamp"
        /\ (~SetIsEmpty /\ ~SomeFieldNull /\ ~SharedPlayedAt) => TransformError = "none"
        /\ TransformError # "none" => (df = input /\ pc = "failed")
        /\ TransformError = "none" => df.dtype = "object"

C3_Witness ==
    /\ Transformed
    /\ SomeFieldNull
    /\ SharedPlayedAt
    /\ err = "IncompleteRecord"

(* C4 (as claimed): transform fails with DuplicateTimestamp if and only if *)
(* two input records share the same PlayedAt value.                        *)
C4_DuplicateIffShared ==
    Transformed => (TransformError = "DuplicateTimestamp" <=> SharedPlayedAt)

(* C4 (amended): transform fails with DuplicateTimestamp if and only if no *)
(* field of any input record is null and two input records share the same  *)
(* PlayedAt value.                                                         *)
C4_DuplicateIffSharedAndComplete ==
    Transformed =>
        (TransformError = "DuplicateTimestamp" <=> (SharedPlayedAt /\ ~SomeFieldNull))

C4_Witness ==
    /\ Transformed
    /\ err = "DuplicateTimestamp"
    /\ Len(input.rows) = 3

(* C5: transform fails with IncompleteRecord if and only if at least one   *)
(* of the seven fields of at least one input record is null.               *)
C5_IncompleteIffNull ==
    Transformed => (TransformError = "IncompleteRecord" <=> SomeFieldNull)

C5_Witness ==
    /\ Transformed
    /\ err = "IncompleteRecord"
    /\ \E i \in 1..Len(input.rows) : input.rows[i].Preview = None
    /\ \A i \in 1..Len(input.rows) :
          /\ input.rows[i].Popularity # NaN
          /\ None \notin {input.rows[i].Track, input.rows[i].Album,
                          input.rows[i].AlbumCover, input.rows[i].PlayedAt}

(* C6: when transform returns, no two output records have the same         *)
(* (Track, Artist); the output is exactly the first occurrence of each     *)
(* distinct (Track, Artist) of the input, in input order, indexed 0..n-1.  *)
C6_Deduplicated ==
    TransformReturned =>
        /\ \A a, b \in 1..Len(df.rows) :
              (df.rows[a].Track = df.rows[b].Track /\ df.rows[a].Artist = df.rows[b].Artist)
                  => a = b
        /\ \E f \in Selections : \A a \in 1..Len(df.rows) : SameRecord(df.rows[a], input.rows[f[a]])
        /\ df.index = [a \in 1..Len(df.rows) |-> a - 1]

\* three records, the first and the last sharing (Track, Artist): two remain
C6_Witness ==
    /\ TransformReturned
    /\ Len(input.rows) = 3
    /\ input.rows[1].Track = input.rows[3].Track
    /\ input.rows[1].Artist = input.rows[3].Artist
    /\ input.rows[1].Track # input.rows[2].Track
    /\ Len(df.rows) = 2

(* C7: every integer score 0..100 gets the label of its bucket (0-24       *)
(* Undiscovered, 25-49 Low, 50-74 High, 75-100 Overplayed), and in         *)
(* transform's output every record carries the label of its own input      *)
(* score.                                                                  *)
C7_PopularityLabels ==
    TransformReturned =>
        \A a \in 1..Len(df.rows) :
            \E i \in 1..Len(input.rows) :
                /\ input.rows[i].PlayedAt = df.rows[a].PlayedAt
                /\ input.rows[i].Popularity \in 0..100
                /\ df.rows[a].Popularity = Bucket(input.rows[i].Popularity)

C7_Witness ==
    /\ TransformReturned
    /\ Len(input.rows) = 3
    /\ Len(df.rows) = 2
    /\ input.rows[1].Popularity = 25
    /\ df.rows[1].Popularity = "Low"
    /\ input.rows[3].Popularity = 50
    /\ df.rows[2].Popularity = "High"

(* C8 (as claimed): transform applied to a frame that transform returned   *)
(* succeeds and returns the same records.                                  *)
C8_TransformTwiceSucceeds ==
    pass = 2 => (err = "none" /\ df = input)

(* C8 (amended): transform applied to a frame that transform returned      *)
(* passes the three checks and its deduplication and re-indexing remove    *)
(* and change nothing; it then fails in the popularity remap (TypeError),  *)
(* the scores already being labels.                                        *)
C8_SecondPassRemovesNothing ==
    pass = 2 => (df = input /\ err = "TypeError" /\ pc = "failed")

C8_Witness ==
    /\ pass = 2
    /\ Len(input.rows) = 2
    /\ Len(data) = 3

(* C9: load given an empty transformed frame fails with EmptyResult and    *)
(* leaves the destination table untouched; the write is never entered      *)
(* with an empty frame.                                                    *)
C9_EmptyResultBeforeWrite ==
    /\ (TransformReturned /\ Len(df.rows) = 0 /\ pc # "transformed")
           => (pc = "failed" /\ err = "EmptyResult" /\ table = table0)
    /\ err = "EmptyResult" => table = table0
    /\ pc \in {"to_sql", "insert"} => Len(df.rows) > 0

C9_Witness ==
    /\ err = "EmptyResult"
    /\ pc = "failed"
    /\ table = OldTable

(* C10: in full runs load's EmptyResult is never raised: whenever          *)
(* transform returns, its output has at least one record and no more than  *)
(* its input, and every run ends in a failure raised by extract,           *)
(* EmptyHistory, IncompleteRecord, DuplicateTimestamp, a destination write *)
(* failure, or a successful load.                                          *)
C10_EmptyResultUnreachable ==
    /\ err # "EmptyResult"
    /\ TransformReturned => (1 <= Len(df.rows) /\ Len(df.rows) <= Len(input.rows))
    /\ Terminal =>
          \/ pc = "done" /\ err = "none"
          \/ pc = "failed" /\ err \in {"TransportFailure", "ExtractError", "EmptyHistory",
                                       "IncompleteRecord", "DuplicateTimestamp",
                                       "DestinationWriteFailure"}

C10_Witness ==
    /\ pc = "transformed"
    /\ Len(input.rows) = 3
    /\ Len(df.rows) = 1

====
